---- MODULE Spec2Model ----
(***************************************************************************)
(* A model of the two Python files of the repository:                      *)
(*   test/regression/atmosphere_models.py  - the atmosphere regression     *)
(*       suite, run by unittest one test case after another, and           *)
(*   examples/inverse/tauc_compare.py      - the tauc comparison script.   *)
(* Each test method is a straight-line program of statements; a statement  *)
(* that calls into the PISM library, numpy or os may raise.                *)
(***************************************************************************)
EXTENDS Integers, Sequences, FiniteSets, TLC

VARIABLES
    (* atmosphere_models.py *)
    done,        \* test cases unittest has already started in this process
    cur,         \* the test case being run (or the last one run)
    phase,       \* "idle", "setUp", "test" or "tearDown"
    ip,          \* index of the next statement of the current phase
    pending,     \* exception held while a finally block runs
    outcome,     \* "running", "ok" or "failed" for cur
    fs,          \* names of the files that exist in the working directory
    config,      \* module-global config: key -> [val, by]
    options,     \* module-global PETSc options: key -> [val, by]
    comps,       \* self.model / model / modifier objects of the test case
    access,      \* begin/end_pointwise_access calls on the live objects
    observed,    \* who set the config and option values cur has read
    pikCtor,     \* what the AtmospherePIK construction of the try block did
    (* tauc_compare.py *)
    pc,          \* position in the script's module body
    opts,        \* (options, args) = parser.parse_args()
    ds,          \* the variables of the input dataset, per grid cell
    tauc, tauc_true, tauc_diff,
    not_ice, not_sliding,
    u_computed, v_computed,
    rel_diff,    \* tauc_diff / tauc_true as handed to the first imshow
    figs,        \* color-scale bounds handed to imshow, per figure
    prev         \* options and bounds of the previous run of the script

suiteVars == <<done, cur, phase, ip, pending, outcome, fs, config, options,
               comps, access, observed, pikCtor>>
scriptVars == <<pc, opts, ds, tauc, tauc_true, tauc_diff, not_ice, not_sliding,
                u_computed, v_computed, rel_diff, figs, prev>>
vars == <<suiteVars, scriptVars>>

(***************************************************************************)
(* Bounds                                                                  *)
(***************************************************************************)
\* how many test cases one process runs (they are drawn in any order)
MaxTests == 2
\* number of grid cells of the dataset read by tauc_compare.py
NCells == 1

(***************************************************************************)
(* atmosphere_models.py: statements                                        *)
(***************************************************************************)
\* One statement: what it does (op), on what (arg), with what value (val),
\* and the try statement it belongs to (blk) with its clause (part).
S(op, arg, val, blk, part) ==
    [op |-> op, arg |-> arg, val |-> val, blk |-> blk, part |-> part]

\* A statement outside any try statement.
P(op, arg, val) == S(op, arg, val, "", "")

\* write_state(model) with a finally clause that forgets the second file
\* (a plausible slip)
write_state_one_remove ==
    << S("prepare_output", "tmp_model_state.nc", "", "ws", "try"),
       S("lib", "define_model_state", "", "ws", "try"),
       S("lib", "write_model_state", "", "ws", "try"),
       S("lib", "output.close", "", "ws", "try"),
       S("lib", "diagnostics", "", "ws", "try"),
       S("prepare_output", "tmp_diagnostics.nc", "", "ws", "try"),
       S("lib", "define diagnostics", "", "ws", "try"),
       S("lib", "compute and write diagnostics", "", "ws", "try"),
       S("lib", "output.close", "", "ws", "try"),
       S("remove", "tmp_model_state.nc", "", "ws", "finally") >>

\* write_state(model): the body of the try statement, then the two removals
\* of its finally clause.
write_state ==
    << S("prepare_output", "tmp_model_state.nc", "", "ws", "try"),
       S("lib", "define_model_state", "", "ws", "try"),
       S("lib", "write_model_state", "", "ws", "try"),
       S("lib", "output.close", "", "ws", "try"),
       S("lib", "diagnostics", "", "ws", "try"),
       S("prepare_output", "tmp_diagnostics.nc", "", "ws", "try"),
       S("lib", "define diagnostics", "", "ws", "try"),
       S("lib", "compute and write diagnostics", "", "ws", "try"),
       S("lib", "output.close", "", "ws", "try"),
       S("remove", "tmp_model_state.nc", "", "ws", "finally"),
       S("remove", "tmp_diagnostics.nc", "", "ws", "finally") >>

\* check_model(model, T, P, ts, Ts, Ps)
check_model(model) ==
    << P("query", model, "mean_annual_temp"),
       P("assert", "check", ""),
       P("query", model, "mean_precipitation"),
       P("assert", "check", ""),
       P("lib", "init_timeseries", ""),
       S("begin", model, "", "cm", "try"),
       S("query", model, "temp_time_series", "cm", "try"),
       S("assert", "assert_almost_equal", "", "cm", "try"),
       S("query", model, "precip_time_series", "cm", "try"),
       S("assert", "assert_almost_equal", "", "cm", "try"),
       S("end", model, "", "cm", "finally") >>
    \o write_state
    \o << P("query", model, "max_timestep") >>

\* check_modifier(model, modifier, T, P, ts, Ts, Ps)
check_modifier(model, modifier) ==
    << P("query", modifier, "mean_annual_temp"),
       P("query", model, "mean_annual_temp"),
       P("assert", "check_difference", ""),
       P("query", modifier, "mean_precipitation"),
       P("query", model, "mean_precipitation"),
       P("assert", "check_difference", ""),
       P("lib", "model.init_timeseries", ""),
       P("lib", "modifier.init_timeseries", ""),
       S("begin", model, "", "cm", "try"),
       S("begin", modifier, "", "cm", "try"),
       S("query", model, "temp_time_series", "cm", "try"),
       S("query", modifier, "temp_time_series", "cm", "try"),
       S("query", model, "precip_time_series", "cm", "try"),
       S("query", modifier, "precip_time_series", "cm", "try"),
       S("assert", "assert_almost_equal", "", "cm", "try"),
       S("assert", "assert_almost_equal", "", "cm", "try"),
       S("end", modifier, "", "cm", "finally"),
       S("end", model, "", "cm", "finally") >>
    \o write_state
    \o << P("query", modifier, "max_timestep") >>

(***************************************************************************)
(* atmosphere_models.py: the test cases                                    *)
(***************************************************************************)
TestCases == {"PIK", "DeltaT", "DeltaP", "Given", "SeaRISE", "YearlyCycle",
              "OneStation", "Uniform", "Anomaly", "PaleoPrecip", "FracP",
              "LapseRates"}

\* self.filename of each test case that has one
Filename(tc) ==
    CASE tc = "PIK"         -> "atmosphere_pik_input.nc"
      [] tc = "DeltaT"      -> "delta_T_input.nc"
      [] tc = "DeltaP"      -> "delta_P_input.nc"
      [] tc = "Given"       -> "atmosphere_given_input.nc"
      [] tc = "SeaRISE"     -> "atmosphere_searise_input.nc"
      [] tc = "YearlyCycle" -> "yearly_cycle.nc"
      [] tc = "OneStation"  -> "one_station.nc"
      [] tc = "Anomaly"     -> "delta_T_input.nc"
      [] tc = "PaleoPrecip" -> "paleo_precip_input.nc"
      [] tc = "FracP"       -> "frac_P_input.nc"
      [] tc = "LapseRates"  -> "reference_surface.nc"
      [] OTHER              -> "(none)"

\* the test cases that create a scratch input file in setUp
WithFile == TestCases \ {"Uniform"}

\* the config or option key under which each test case registers its file
FileKey(tc) ==
    CASE tc = "PIK"         -> "atmosphere.pik.file"
      [] tc = "DeltaT"      -> "-atmosphere_delta_T_file"
      [] tc = "DeltaP"      -> "-atmosphere_delta_P_file"
      [] tc = "Given"       -> "atmosphere.given.file"
      [] tc = "SeaRISE"     -> "-atmosphere_searise_greenland_file"
      [] tc = "YearlyCycle" -> "-atmosphere_yearly_cycle_file"
      [] tc = "OneStation"  -> "-atmosphere_one_station_file"
      [] tc = "Anomaly"     -> "atmosphere.anomaly.file"
      [] tc = "PaleoPrecip" -> "-atmosphere_paleo_precip_file"
      [] tc = "FracP"       -> "-atmosphere_frac_P_file"
      [] tc = "LapseRates"  -> "atmosphere.lapse_rate.file"
      [] OTHER              -> "(none)"

\* the component whose init/update cycle the test method runs
UnderTest(tc) ==
    IF tc \in {"PIK", "Given", "SeaRISE", "YearlyCycle", "OneStation", "Uniform"}
    THEN "model" ELSE "modifier"

\* ---- PIK
PIK_setUp ==
    << P("lib", "shallow_grid", ""),
       P("lib", "Geometry", ""),
       P("lib", "latitude.set", ""),
       P("prepare_output", "atmosphere_pik_input.nc", ""),
       P("setcfg", "atmosphere.pik.file", "atmosphere_pik_input.nc") >>

\* one turn of the loop over the parameterizations
PIK_iteration(p) ==
    << P("setcfg", "atmosphere.pik.parameterization", p),
       P("construct", "model", "AtmospherePIK"),
       P("init", "model", ""),
       P("update", "model", "") >>
    \o check_model("model")

\* the try statement that ends test_atmosphere_pik
PIK_invalid ==
    << S("setcfg", "atmosphere.pik.parameterization", "invalid", "pik", "try"),
       S("construct", "model", "AtmospherePIK", "pik", "try"),
       S("fail", "failed to catch an invalid parameterization", "", "pik", "try") >>

PIK_test_atmosphere_pik ==
    PIK_iteration("martin") \o PIK_iteration("huybrechts_dewolde")
    \o PIK_iteration("martin_huybrechts_dewolde") \o PIK_iteration("era_interim")
    \o PIK_iteration("era_interim_sin") \o PIK_iteration("era_interim_lon")
    \o << P("query", "model", "max_timestep"),
          P("assert", "infinite", "") >>
    \o PIK_invalid

\* ---- DeltaT
DeltaT_setUp ==
    << P("lib", "shallow_grid", ""),
       P("lib", "Geometry", ""),
       P("lib", "ice_thickness.set", ""),
       P("construct", "model", "AtmosphereUniform"),
       P("prepare_output", "delta_T_input.nc", "") >>

\* DeltaT with the option set after init (a plausible slip)
DeltaT_test_late_option ==
    << P("construct", "modifier", "AtmosphereDeltaT"),
       P("init", "modifier", ""),
       P("setopt", "-atmosphere_delta_T_file", "delta_T_input.nc"),
       P("update", "modifier", "") >>
    \o check_modifier("model", "modifier")

DeltaT_test_atmosphere_delta_t ==
    << P("construct", "modifier", "AtmosphereDeltaT"),
       P("setopt", "-atmosphere_delta_T_file", "delta_T_input.nc"),
       P("init", "modifier", ""),
       P("update", "modifier", "") >>
    \o check_modifier("model", "modifier")

\* ---- DeltaP
DeltaP_setUp ==
    << P("lib", "shallow_grid", ""),
       P("lib", "Geometry", ""),
       P("lib", "ice_thickness.set", ""),
       P("construct", "model", "AtmosphereUniform"),
       P("prepare_output", "delta_P_input.nc", ""),
       P("setopt", "-atmosphere_delta_P_file", "delta_P_input.nc") >>

DeltaP_test_atmosphere_delta_p ==
    << P("construct", "modifier", "AtmosphereDeltaP"),
       P("init", "modifier", ""),
       P("update", "modifier", "") >>
    \o check_modifier("model", "modifier")

\* ---- Given
Given_setUp ==
    << P("lib", "shallow_grid", ""),
       P("lib", "Geometry", ""),
       P("prepare_output", "atmosphere_given_input.nc", ""),
       P("lib", "precipitation.write", ""),
       P("lib", "air_temperature.write", ""),
       P("setcfg", "atmosphere.given.file", "atmosphere_given_input.nc") >>

\* Given without the update call (a plausible slip)
Given_test_no_update ==
    << P("construct", "model", "AtmosphereGiven"),
       P("init", "model", "") >>
    \o check_model("model")

Given_test_atmosphere_given ==
    << P("construct", "model", "AtmosphereGiven"),
       P("init", "model", ""),
       P("update", "model", "") >>
    \o check_model("model")

\* ---- SeaRISE
SeaRISE_setUp ==
    << P("lib", "shallow_grid", ""),
       P("lib", "Geometry", ""),
       P("lib", "latitude.set", ""),
       P("lib", "longitude.set", ""),
       P("lib", "ice_thickness.set", ""),
       P("lib", "ensure_consistency", ""),
       P("prepare_output", "atmosphere_searise_input.nc", ""),
       P("lib", "precipitation.write", ""),
       P("setopt", "-atmosphere_searise_greenland_file", "atmosphere_searise_input.nc") >>

SeaRISE_test_atmosphere_searise_greenland ==
    << P("construct", "model", "AtmosphereSeaRISEGreenland"),
       P("init", "model", ""),
       P("update", "model", "") >>
    \o check_model("model")

\* ---- YearlyCycle
YearlyCycle_setUp ==
    << P("lib", "shallow_grid", ""),
       P("lib", "Geometry", ""),
       P("prepare_output", "yearly_cycle.nc", ""),
       P("lib", "precipitation.write", ""),
       P("lib", "T_mean", ""),
       P("lib", "T_mean.write", ""),
       P("lib", "T_summer", ""),
       P("lib", "T_summer.write", ""),
       P("setopt", "-atmosphere_yearly_cycle_file", "yearly_cycle.nc") >>

YearlyCycle_test_atmosphere_yearly_cycle ==
    << P("construct", "model", "AtmosphereCosineYearlyCycle"),
       P("init", "model", ""),
       P("update", "model", ""),
       P("getcfg", "atmosphere.fausto_air_temp.summer_peak_day", "") >>
    \o check_model("model")

\* ---- OneStation
OneStation_setUp ==
    << P("lib", "shallow_grid", ""),
       P("lib", "Geometry", ""),
       P("getcfg", "time.dimension_name", ""),
       P("prepare_output", "one_station.nc", ""),
       P("lib", "redef", ""),
       P("lib", "def_var precipitation", ""),
       P("lib", "put_att_text precipitation", ""),
       P("lib", "def_var air_temp", ""),
       P("lib", "put_att_text air_temp", ""),
       P("lib", "put_1d_var precipitation", ""),
       P("lib", "put_1d_var air_temp", ""),
       P("lib", "output.close", ""),
       P("setopt", "-atmosphere_one_station_file", "one_station.nc") >>

OneStation_test_atmosphere_one_station ==
    << P("construct", "model", "AtmosphereWeatherStation"),
       P("init", "model", ""),
       P("update", "model", "") >>
    \o check_model("model")

\* ---- Uniform
Uniform_setUp ==
    << P("lib", "shallow_grid", ""),
       P("lib", "Geometry", ""),
       P("setcfg", "atmosphere.uniform.temperature", "250.0"),
       P("setcfg", "atmosphere.uniform.precipitation", "5.0") >>

Uniform_test_atmosphere_uniform ==
    << P("construct", "model", "AtmosphereUniform"),
       P("init", "model", ""),
       P("update", "model", ""),
       P("lib", "convert", "") >>
    \o check_model("model")

\* ---- Anomaly
Anomaly_setUp ==
    << P("lib", "shallow_grid", ""),
       P("lib", "Geometry", ""),
       P("lib", "ice_thickness.set", ""),
       P("construct", "model", "AtmosphereUniform"),
       P("lib", "dT", ""),
       P("lib", "dP", ""),
       P("prepare_output", "delta_T_input.nc", ""),
       P("lib", "dT.write", ""),
       P("lib", "dP.write", ""),
       P("setcfg", "atmosphere.anomaly.file", "delta_T_input.nc") >>

Anomaly_test_atmosphere_anomaly ==
    << P("construct", "modifier", "AtmosphereAnomaly"),
       P("init", "modifier", ""),
       P("update", "modifier", "") >>
    \o check_modifier("model", "modifier")

\* ---- PaleoPrecip
PaleoPrecip_setUp ==
    << P("lib", "shallow_grid", ""),
       P("lib", "Geometry", ""),
       P("lib", "ice_thickness.set", ""),
       P("construct", "model", "AtmosphereUniform"),
       P("prepare_output", "paleo_precip_input.nc", ""),
       P("setopt", "-atmosphere_paleo_precip_file", "paleo_precip_input.nc") >>

PaleoPrecip_test_atmosphere_paleo_precip ==
    << P("construct", "modifier", "AtmospherePaleoPrecip"),
       P("init", "modifier", ""),
       P("update", "modifier", "") >>
    \o check_modifier("model", "modifier")

\* ---- FracP
FracP_setUp ==
    << P("lib", "shallow_grid", ""),
       P("lib", "Geometry", ""),
       P("lib", "ice_thickness.set", ""),
       P("construct", "model", "AtmosphereUniform"),
       P("prepare_output", "frac_P_input.nc", ""),
       P("setopt", "-atmosphere_frac_P_file", "frac_P_input.nc") >>

FracP_test_atmosphere_frac_p ==
    << P("construct", "modifier", "AtmosphereFracP"),
       P("init", "modifier", ""),
       P("update", "modifier", ""),
       P("query", "modifier", "mean_precipitation"),
       P("query", "model", "mean_precipitation"),
       P("assert", "check_ratio", "") >>
    \o check_modifier("model", "modifier")

\* ---- LapseRates
LapseRates_setUp ==
    << P("lib", "shallow_grid", ""),
       P("construct", "model", "AtmosphereUniform"),
       P("lib", "convert", ""),
       P("lib", "Geometry", ""),
       P("prepare_output", "reference_surface.nc", ""),
       P("setcfg", "atmosphere.lapse_rate.file", "reference_surface.nc"),
       P("setcfg", "atmosphere.lapse_rate.precipitation_lapse_rate", "1000.0"),
       P("setopt", "-temp_lapse_rate", "1.0") >>

LapseRates_test_atmosphere_lapse_rate ==
    << P("construct", "modifier", "AtmosphereLapseRates"),
       P("init", "modifier", ""),
       P("lib", "ice_surface_elevation.shift", ""),
       P("update", "modifier", "") >>
    \o check_modifier("model", "modifier")

\* tearDown of the test cases that define one: os.remove(self.filename)
tearDown(tc) ==
    IF tc \in WithFile THEN << P("remove", Filename(tc), "") >> ELSE << >>

setUp(tc) ==
    CASE tc = "PIK"         -> PIK_setUp
      [] tc = "DeltaT"      -> DeltaT_setUp
      [] tc = "DeltaP"      -> DeltaP_setUp
      [] tc = "Given"       -> Given_setUp
      [] tc = "SeaRISE"     -> SeaRISE_setUp
      [] tc = "YearlyCycle" -> YearlyCycle_setUp
      [] tc = "OneStation"  -> OneStation_setUp
      [] tc = "Uniform"     -> Uniform_setUp
      [] tc = "Anomaly"     -> Anomaly_setUp
      [] tc = "PaleoPrecip" -> PaleoPrecip_setUp
      [] tc = "FracP"       -> FracP_setUp
      [] tc = "LapseRates"  -> LapseRates_setUp
      [] OTHER              -> << >>

testMethod(tc) ==
    CASE tc = "PIK"         -> PIK_test_atmosphere_pik
      [] tc = "DeltaT"      -> DeltaT_test_atmosphere_delta_t
      [] tc = "DeltaP"      -> DeltaP_test_atmosphere_delta_p
      [] tc = "Given"       -> Given_test_atmosphere_given
      [] tc = "SeaRISE"     -> SeaRISE_test_atmosphere_searise_greenland
      [] tc = "YearlyCycle" -> YearlyCycle_test_atmosphere_yearly_cycle
      [] tc = "OneStation"  -> OneStation_test_atmosphere_one_station
      [] tc = "Uniform"     -> Uniform_test_atmosphere_uniform
      [] tc = "Anomaly"     -> Anomaly_test_atmosphere_anomaly
      [] tc = "PaleoPrecip" -> PaleoPrecip_test_atmosphere_paleo_precip
      [] tc = "FracP"       -> FracP_test_atmosphere_frac_p
      [] tc = "LapseRates"  -> LapseRates_test_atmosphere_lapse_rate
      [] OTHER              -> << >>

\* the statements of the phase the current test case is in
Prog ==
    CASE phase = "setUp"    -> setUp(cur)
      [] phase = "test"     -> testMethod(cur)
      [] phase = "tearDown" -> tearDown(cur)
      [] OTHER              -> << >>

(***************************************************************************)
(* atmosphere_models.py: module-level state                                *)
(***************************************************************************)
ConfigKeys == {"time.calendar", "time.dimension_name",
               "atmosphere.pik.file", "atmosphere.pik.parameterization",
               "atmosphere.given.file", "atmosphere.anomaly.file",
               "atmosphere.uniform.temperature", "atmosphere.uniform.precipitation",
               "atmosphere.lapse_rate.file",
               "atmosphere.lapse_rate.precipitation_lapse_rate",
               "atmosphere.fausto_air_temp.summer_peak_day"}

OptionKeys == {"-atmosphere_delta_T_file", "-atmosphere_delta_P_file",
               "-atmosphere_searise_greenland_file", "-atmosphere_yearly_cycle_file",
               "-atmosphere_one_station_file", "-atmosphere_paleo_precip_file",
               "-atmosphere_frac_P_file", "-temp_lapse_rate"}

\* a setting nobody has touched: the library default
Default == [val |-> "default", by |-> "default"]

\* the value stored under a key of config or of the PETSc options
Lookup(key) == IF key \in ConfigKeys THEN config[key] ELSE options[key]

\* an object that does not exist yet / a freshly constructed one
NoObject == [alive |-> FALSE, init |-> 0, update |-> 0, queried |-> FALSE]
NewObject == [alive |-> TRUE, init |-> 0, update |-> 0, queried |-> FALSE]
Objects == {"model", "modifier"}

\* the settings a constructor reads: AtmosphereUniform takes its temperature
\* and precipitation from config, AtmospherePIK its parameterization
CtorReads(class) ==
    CASE class = "AtmosphereUniform" ->
             {"atmosphere.uniform.temperature", "atmosphere.uniform.precipitation"}
      [] class = "AtmospherePIK" -> {"atmosphere.pik.parameterization"}
      [] OTHER -> {}

\* the settings init reads: the input file the test case registered
InitReads(tc) == IF tc \in WithFile THEN {FileKey(tc)} ELSE {}

(***************************************************************************)
(* atmosphere_models.py: control flow of one test case                     *)
(***************************************************************************)
Stmt == Prog[ip]
Running == phase \in {"setUp", "test", "tearDown"} /\ ip <= Len(Prog)
At(op) == Running /\ Stmt.op = op

Ctl(ph, i, pend, out) == [phase |-> ph, ip |-> i, pending |-> pend, outcome |-> out]

Go(c) ==
    /\ phase' = c.phase
    /\ ip' = c.ip
    /\ pending' = c.pending
    /\ outcome' = c.outcome

\* An exception leaves the phase. unittest skips the test method and tearDown
\* when setUp raises, and runs tearDown after the test method whatever it did.
Unwind ==
    CASE phase = "setUp" -> Ctl("idle", 1, "none", "failed")
      [] phase = "test"  -> Ctl("tearDown", 1, "none", "failed")
      [] OTHER           -> Ctl("idle", 1, "none", "failed")

\* the try statements that have a finally clause
FinallyBlocks == {"cm", "ws"}

\* an except clause that catches anything (a plausible slip)
CatchesAnything(blk, e) == blk = "pik"

\* the except clause of a try statement: only "except RuntimeError: pass"
Catches(blk, e) == blk = "pik" /\ e = "RuntimeError"

\* first statement after i that is in the finally clause of i's try statement
FirstFinally(i) ==
    CHOOSE j \in (i + 1)..Len(Prog) :
        /\ Prog[j].blk = Prog[i].blk /\ Prog[j].part = "finally"
        /\ \A k \in (i + 1)..(j - 1) : Prog[k].part # "finally"

\* first position after the try statement that statement i belongs to
AfterBlock(i) ==
    CHOOSE j \in (i + 1)..(Len(Prog) + 1) :
        /\ j = Len(Prog) + 1 \/ Prog[j].blk # Prog[i].blk
        /\ \A k \in (i + 1)..(j - 1) : Prog[k].blk = Prog[i].blk

\* where control goes when the current statement raises e
AfterRaise(e) ==
    IF Stmt.part = "try" /\ Stmt.blk \in FinallyBlocks
    THEN Ctl(phase, FirstFinally(ip), e, outcome)
    ELSE IF Stmt.part = "try" /\ Catches(Stmt.blk, e)
    THEN Ctl(phase, AfterBlock(ip), "none", outcome)
    ELSE Unwind

\* the current statement is the last one of a finally clause
EndsFinally ==
    /\ Stmt.part = "finally"
    /\ \/ ip = Len(Prog)
       \/ Prog[ip + 1].part # "finally"
       \/ Prog[ip + 1].blk # Stmt.blk

\* where control goes when the current statement completes
AfterNormal ==
    IF EndsFinally /\ pending # "none"
    THEN Unwind
    ELSE Ctl(phase, ip + 1, pending, outcome)

(***************************************************************************)
(* atmosphere_models.py: unittest running the test cases                   *)
(***************************************************************************)
\* unittest makes a fresh TestCase instance and calls setUp
StartTest(tc) ==
    /\ phase = "idle"
    /\ tc \notin done
    /\ Cardinality(done) < MaxTests
    /\ done' = done \cup {tc}
    /\ cur' = tc
    /\ Go(Ctl("setUp", 1, "none", "running"))
    /\ comps' = [o \in Objects |-> NoObject]
    /\ access' = [begun |-> << >>, ended |-> << >>]
    /\ observed' = {}
    /\ pikCtor' = "unset"
    /\ UNCHANGED <<fs, config, options, scriptVars>>

\* setUp returned: the test method runs
EndSetUp ==
    /\ phase = "setUp" /\ ip = Len(Prog) + 1
    /\ Go(Ctl("test", 1, "none", outcome))
    /\ UNCHANGED <<done, cur, fs, config, options, comps, access, observed,
                   pikCtor, scriptVars>>

\* the test method returned: tearDown runs
EndTest ==
    /\ phase = "test" /\ ip = Len(Prog) + 1
    /\ Go(Ctl("tearDown", 1, "none", "ok"))
    /\ UNCHANGED <<done, cur, fs, config, options, comps, access, observed,
                   pikCtor, scriptVars>>

\* tearDown returned: the test case has finished
EndTearDown ==
    /\ phase = "tearDown" /\ ip = Len(Prog) + 1
    /\ Go(Ctl("idle", 1, "none", outcome))
    /\ UNCHANGED <<done, cur, fs, config, options, comps, access, observed,
                   pikCtor, scriptVars>>

(***************************************************************************)
(* atmosphere_models.py: the statements                                    *)
(***************************************************************************)
\* a library call with no effect the model tracks; it may raise
Lib ==
    /\ At("lib")
    /\ \/ Go(AfterNormal)
       \/ Go(AfterRaise("RuntimeError"))
    /\ UNCHANGED <<done, cur, fs, config, options, comps, access, observed,
                   pikCtor, scriptVars>>

\* prepare_output / dump / create_scalar_forcing: creates the file; it may
\* raise before the file exists or after
PrepareOutput ==
    /\ At("prepare_output")
    /\ \/ fs' = fs \cup {Stmt.arg} /\ Go(AfterNormal)
       \/ fs' = fs \cup {Stmt.arg} /\ Go(AfterRaise("RuntimeError"))
       \/ fs' = fs /\ Go(AfterRaise("RuntimeError"))
    /\ UNCHANGED <<done, cur, config, options, comps, access, observed,
                   pikCtor, scriptVars>>

\* os.remove(name): FileNotFoundError when there is no such file
Remove ==
    /\ At("remove")
    /\ IF Stmt.arg \in fs
       THEN fs' = fs \ {Stmt.arg} /\ Go(AfterNormal)
       ELSE fs' = fs /\ Go(AfterRaise("OSError"))
    /\ UNCHANGED <<done, cur, config, options, comps, access, observed,
                   pikCtor, scriptVars>>

\* config.set_string / config.set_double
SetConfig ==
    /\ At("setcfg")
    /\ config' = [config EXCEPT ![Stmt.arg] = [val |-> Stmt.val, by |-> cur]]
    /\ Go(AfterNormal)
    /\ UNCHANGED <<done, cur, fs, options, comps, access, observed,
                   pikCtor, scriptVars>>

\* options.setValue
SetOption ==
    /\ At("setopt")
    /\ options' = [options EXCEPT ![Stmt.arg] = [val |-> Stmt.val, by |-> cur]]
    /\ Go(AfterNormal)
    /\ UNCHANGED <<done, cur, fs, config, comps, access, observed,
                   pikCtor, scriptVars>>

\* config.get_double / config.get_string in the test code itself
GetConfig ==
    /\ At("getcfg")
    /\ observed' = observed \cup {Lookup(Stmt.arg).by}
    /\ Go(AfterNormal)
    /\ UNCHANGED <<done, cur, fs, config, options, comps, access,
                   pikCtor, scriptVars>>

\* x = PISM.Atmosphere...(grid): reads its settings; the name is bound to
\* the new object only when the constructor returns
Construct ==
    /\ At("construct")
    /\ observed' = observed \cup {Lookup(k).by : k \in CtorReads(Stmt.val)}
    /\ \E r \in {"none", "RuntimeError", "Other"} :
          /\ pikCtor' = IF Stmt.blk = "pik" THEN r ELSE pikCtor
          /\ IF r = "none"
             THEN /\ comps' = [comps EXCEPT ![Stmt.arg] = NewObject]
                  /\ access' = [begun |-> SelectSeq(access.begun, LAMBDA o : o # Stmt.arg),
                                ended |-> SelectSeq(access.ended, LAMBDA o : o # Stmt.arg)]
                  /\ Go(AfterNormal)
             ELSE /\ UNCHANGED <<comps, access>>
                  /\ Go(AfterRaise(r))
    /\ UNCHANGED <<done, cur, fs, config, options, scriptVars>>

\* x.init(geometry): reads the registered input file
InitComponent ==
    /\ At("init")
    /\ observed' = observed \cup {Lookup(k).by : k \in InitReads(cur)}
    /\ comps' = [comps EXCEPT ![Stmt.arg].init = @ + 1]
    /\ \/ Go(AfterNormal)
       \/ Go(AfterRaise("RuntimeError"))
    /\ UNCHANGED <<done, cur, fs, config, options, access, pikCtor, scriptVars>>

\* x.update(geometry, t, dt)
UpdateComponent ==
    /\ At("update")
    /\ comps' = [comps EXCEPT ![Stmt.arg].update = @ + 1]
    /\ \/ Go(AfterNormal)
       \/ Go(AfterRaise("RuntimeError"))
    /\ UNCHANGED <<done, cur, fs, config, options, access, observed,
                   pikCtor, scriptVars>>

\* a query of an object's outputs: mean_annual_temp, mean_precipitation,
\* temp_time_series, precip_time_series, max_timestep
Query ==
    /\ At("query")
    /\ comps' = [comps EXCEPT ![Stmt.arg].queried = TRUE]
    /\ \/ Go(AfterNormal)
       \/ Go(AfterRaise("RuntimeError"))
    /\ UNCHANGED <<done, cur, fs, config, options, access, observed,
                   pikCtor, scriptVars>>

\* check, check_difference, check_ratio, assert_almost_equal, assert: the
\* numbers are the library's, so the comparison may go either way
AssertStmt ==
    /\ At("assert")
    /\ \/ Go(AfterNormal)
       \/ Go(AfterRaise("AssertionError"))
    /\ UNCHANGED <<done, cur, fs, config, options, comps, access, observed,
                   pikCtor, scriptVars>>

\* assert False, "..."
Fail ==
    /\ At("fail")
    /\ Go(AfterRaise("AssertionError"))
    /\ UNCHANGED <<done, cur, fs, config, options, comps, access, observed,
                   pikCtor, scriptVars>>

\* x.begin_pointwise_access(): completes, or raises
BeginAccess ==
    /\ At("begin")
    /\ \/ /\ access' = [access EXCEPT !.begun = Append(@, Stmt.arg)]
          /\ Go(AfterNormal)
       \/ /\ UNCHANGED access
          /\ Go(AfterRaise("RuntimeError"))
    /\ UNCHANGED <<done, cur, fs, config, options, comps, observed,
                   pikCtor, scriptVars>>

\* x.end_pointwise_access(): is called, and completes or raises
EndAccess ==
    /\ At("end")
    /\ access' = [access EXCEPT !.ended = Append(@, Stmt.arg)]
    /\ \/ Go(AfterNormal)
       \/ Go(AfterRaise("RuntimeError"))
    /\ UNCHANGED <<done, cur, fs, config, options, comps, observed,
                   pikCtor, scriptVars>>

(***************************************************************************)
(* tauc_compare.py                                                         *)
(***************************************************************************)
Cells == 1..NCells

\* the values an option has when its flag is omitted: optparse gives None
\* to an option declared without a default
parser_defaults == [input_file |-> "None", tauc_cap |-> 200000, rel_cap |-> 1]

\* what the command line can give for each flag
FlagValues == [input_file |-> {"inv.nc"}, tauc_cap |-> {100}, rel_cap |-> {2}]
Flags == {"input_file", "tauc_cap", "rel_cap"}

\* the values a grid cell of the dataset can hold: mask is PISM's cell type
\* (2 is grounded ice), velocities are in units of 1e-7 m/s
CellValues == [tauc : {3, 5}, tauc_true : {0, 3}, mask : {0, 2, 3},
               u_computed : {1, -4}, v_computed : {1, 4}]

Abs(x) == IF x < 0 THEN -x ELSE x

\* x * PISM.secpera: 1e-7 m/s to 1e-7 m/year
PerYear(x) == x * 31556926

\* abs(mask - 2) > 0.01, in hundredths
NotIce(mask) == Abs(100 * mask - 200) > 1

\* abs(u) < 10. and abs(v) < 10., for u, v in 1e-7 m/year
NotSliding(u, v) == Abs(u) < 10 * 10000000 /\ Abs(v) < 10 * 10000000

\* the elementwise quotient a / b of two arrays, kept as the pair it is
\* formed from; zero_division marks a cell whose denominator is 0
Divide(a, b) == [num |-> a, den |-> b, zero_division |-> (b = 0)]

\* color-scale bounds (vmin, vmax) handed to imshow, in tenths
\* the difference figure
difference_bounds(o) == [vmin |-> -(10 * o.rel_cap), vmax |-> 10 * o.rel_cap]

\* the side-by-side figure with the second panel capped by rel_cap
\* (a plausible slip)
side_by_side_bounds_mixed(o) ==
    [inversion |-> [vmin |-> 0, vmax |-> 10 * o.tauc_cap],
     prior |-> [vmin |-> 0, vmax |-> 10 * o.rel_cap]]

\* the side-by-side figure: tauc from the inversion, and the true tauc
side_by_side_bounds(o) ==
    [inversion |-> [vmin |-> 0, vmax |-> 10 * o.tauc_cap],
     prior |-> [vmin |-> 0, vmax |-> 10 * o.tauc_cap]]

\* the sliding speed figure: LogNorm(vmin=0.1, vmax=1000.0)
speed_bounds(o) == [vmin |-> 1, vmax |-> 10000]

\* (options, args) = parser.parse_args()
parse_args ==
    /\ pc = "start"
    /\ \E given \in SUBSET Flags :
       \E v \in [input_file : FlagValues.input_file,
                 tauc_cap : FlagValues.tauc_cap,
                 rel_cap : FlagValues.rel_cap] :
          opts' = [input_file |-> IF "input_file" \in given
                                  THEN v.input_file ELSE parser_defaults.input_file,
                   tauc_cap |-> IF "tauc_cap" \in given
                                THEN v.tauc_cap ELSE parser_defaults.tauc_cap,
                   rel_cap |-> IF "rel_cap" \in given
                               THEN v.rel_cap ELSE parser_defaults.rel_cap,
                   given |-> given]
    /\ pc' = "parsed"
    /\ UNCHANGED <<rel_diff, ds, tauc, tauc_true, tauc_diff, not_ice, not_sliding,
                   u_computed, v_computed, figs, prev, suiteVars>>

\* ds = netCDF.Dataset(options.input_file); tauc, tauc_true, tauc_diff.
\* Dataset(None) raises, and so may a file that cannot be read.
read_fields ==
    /\ pc = "parsed"
    /\ \/ /\ opts.input_file # "None"
          /\ \E d \in [Cells -> CellValues] :
                /\ ds' = d
                /\ tauc' = [c \in Cells |-> d[c].tauc]
                /\ tauc_true' = [c \in Cells |-> d[c].tauc_true]
                /\ tauc_diff' = [c \in Cells |-> d[c].tauc - d[c].tauc_true]
          /\ pc' = "read"
       \/ /\ pc' = "crashed"
          /\ UNCHANGED <<ds, tauc, tauc_true, tauc_diff>>
    /\ UNCHANGED <<rel_diff, opts, not_ice, not_sliding, u_computed, v_computed, figs,
                   prev, suiteVars>>

\* not_ice = ...; tauc[not_ice] = 0; tauc_true[not_ice] = 0; tauc_diff[not_ice] = 0.
mask_not_ice ==
    /\ pc = "read"
    /\ not_ice' = [c \in Cells |-> NotIce(ds[c].mask)]
    /\ tauc' = [c \in Cells |-> IF not_ice'[c] THEN 0 ELSE tauc[c]]
    /\ tauc_true' = [c \in Cells |-> IF not_ice'[c] THEN 0 ELSE tauc_true[c]]
    /\ tauc_diff' = [c \in Cells |-> IF not_ice'[c] THEN 0 ELSE tauc_diff[c]]
    /\ pc' = "masked_ice"
    /\ UNCHANGED <<rel_diff, opts, ds, not_sliding, u_computed, v_computed, figs, prev,
                   suiteVars>>

\* u_computed, v_computed = ... * PISM.secpera. cbase_computed, the speed
\* sqrt(u^2 + v^2), is only handed to the third imshow and is not kept here.
velocities ==
    /\ pc = "masked_ice"
    /\ u_computed' = [c \in Cells |-> PerYear(ds[c].u_computed)]
    /\ v_computed' = [c \in Cells |-> PerYear(ds[c].v_computed)]
    /\ pc' = "velocities"
    /\ UNCHANGED <<rel_diff, opts, ds, tauc, tauc_true, tauc_diff, not_ice, not_sliding,
                   figs, prev, suiteVars>>

\* not_sliding = ...; tauc[not_ice] = 0; tauc_true[not_ice] = 0;
\* tauc_diff[not_sliding] = 0.
mask_not_sliding ==
    /\ pc = "velocities"
    /\ not_sliding' = [c \in Cells |-> NotSliding(u_computed[c], v_computed[c])]
    /\ tauc' = [c \in Cells |-> IF not_ice[c] THEN 0 ELSE tauc[c]]
    /\ tauc_true' = [c \in Cells |-> IF not_ice[c] THEN 0 ELSE tauc_true[c]]
    /\ tauc_diff' = [c \in Cells |-> IF not_sliding'[c] THEN 0 ELSE tauc_diff[c]]
    /\ pc' = "masked"
    /\ UNCHANGED <<rel_diff, opts, ds, not_ice, u_computed, v_computed, figs, prev,
                   suiteVars>>

\* the difference figure: imshow(tauc_diff / tauc_true, vmin=-rel_cap, vmax=rel_cap)
difference_figure ==
    /\ pc = "masked"
    /\ rel_diff' = [c \in Cells |-> Divide(tauc_diff[c], tauc_true[c])]
    /\ figs' = [difference |-> difference_bounds(opts)]
    /\ pc' = "fig1"
    /\ UNCHANGED <<opts, ds, tauc, tauc_true, tauc_diff, not_ice, not_sliding,
                   u_computed, v_computed, prev, suiteVars>>

\* the side-by-side comparison
side_by_side_figure ==
    /\ pc = "fig1"
    /\ figs' = [difference |-> figs.difference,
                inversion |-> side_by_side_bounds(opts).inversion,
                prior |-> side_by_side_bounds(opts).prior]
    /\ pc' = "fig2"
    /\ UNCHANGED <<rel_diff, opts, ds, tauc, tauc_true, tauc_diff, not_ice, not_sliding,
                   u_computed, v_computed, prev, suiteVars>>

\* the computed sliding speed, then pp.show()
speed_figure ==
    /\ pc = "fig2"
    /\ figs' = [difference |-> figs.difference,
                inversion |-> figs.inversion,
                prior |-> figs.prior,
                speed |-> speed_bounds(opts)]
    /\ pc' = "done"
    /\ UNCHANGED <<rel_diff, opts, ds, tauc, tauc_true, tauc_diff, not_ice, not_sliding,
                   u_computed, v_computed, prev, suiteVars>>

\* the process ends; the script can be run again, with other options
run_again ==
    /\ pc \in {"done", "crashed"}
    /\ prev' = [pc |-> pc, opts |-> opts, figs |-> figs]
    /\ pc' = "start"
    /\ opts' = << >>
    /\ ds' = << >>
    /\ tauc' = << >>
    /\ tauc_true' = << >>
    /\ tauc_diff' = << >>
    /\ not_ice' = << >>
    /\ not_sliding' = << >>
    /\ u_computed' = << >>
    /\ v_computed' = << >>
    /\ rel_diff' = << >>
    /\ figs' = << >>
    /\ UNCHANGED suiteVars

NextScript ==
    \/ parse_args
    \/ read_fields
    \/ mask_not_ice
    \/ velocities
    \/ mask_not_sliding
    \/ difference_figure
    \/ side_by_side_figure
    \/ speed_figure
    \/ run_again

InitScript ==
    /\ pc = "start"
    /\ opts = << >>
    /\ ds = << >>
    /\ tauc = << >>
    /\ tauc_true = << >>
    /\ tauc_diff = << >>
    /\ not_ice = << >>
    /\ not_sliding = << >>
    /\ u_computed = << >>
    /\ v_computed = << >>
    /\ rel_diff = << >>
    /\ figs = << >>
    /\ prev = [pc |-> "none", opts |-> << >>, figs |-> << >>]

InitSuite ==
    /\ done = {}
    /\ cur = "none"
    /\ phase = "idle"
    /\ ip = 1
    /\ pending = "none"
    /\ outcome = "running"
    /\ fs = {}
    /\ config = [k \in ConfigKeys |->
                    IF k = "time.calendar"
                    THEN [val |-> "365_day", by |-> "module"]
                    ELSE Default]
    /\ options = [k \in OptionKeys |-> Default]
    /\ comps = [o \in Objects |-> NoObject]
    /\ access = [begun |-> << >>, ended |-> << >>]
    /\ observed = {}
    /\ pikCtor = "unset"

NextSuite ==
    \/ \E tc \in TestCases : StartTest(tc)
    \/ EndSetUp
    \/ EndTest
    \/ EndTearDown
    \/ Lib
    \/ PrepareOutput
    \/ Remove
    \/ SetConfig
    \/ SetOption
    \/ GetConfig
    \/ Construct
    \/ InitComponent
    \/ UpdateComponent
    \/ Query
    \/ AssertStmt
    \/ Fail
    \/ BeginAccess
    \/ EndAccess

Init == InitSuite /\ InitScript

\* the regression suite run by unittest
SpecSuite == Init /\ [][NextSuite]_vars

\* the comparison script
SpecScript == Init /\ [][NextScript]_vars

(***************************************************************************)
(* Properties of the regression suite                                      *)
(***************************************************************************)
TmpFiles == {"tmp_model_state.nc", "tmp_diagnostics.nc"}

\* control is inside write_state's try statement
InWriteState == Running /\ Stmt.blk = "ws"

\* control is inside the try statement of check_model / check_modifier
InCheckBlock == Running /\ Stmt.blk = "cm"

\* write_state has just returned normally to check_model / check_modifier
WriteStateReturned ==
    /\ phase = "test" /\ Running /\ ip > 1
    /\ Prog[ip - 1].blk = "ws" /\ Stmt.blk # "ws"

Count(seq, o) == Len(SelectSeq(seq, LAMBDA x : x = o))

Reverse(seq) == [i \in 1..Len(seq) |-> seq[Len(seq) + 1 - i]]

\* the object whose init/update cycle the current test method runs
Tested == comps[UnderTest(cur)]

\* the current test case's file is registered under its key, by itself
Registered ==
    Lookup(FileKey(cur)) = [val |-> Filename(cur), by |-> cur]

\* C1: once a test case that creates a scratch input file has finished,
\* however it ended (setUp failing after the file was created included), the
\* file named self.filename does not exist.
C1_FileGoneWhenFinished ==
    (phase = "idle" /\ cur \in WithFile) => Filename(cur) \notin fs

\* C2: after any call of write_state, whether it returned or raised at any
\* step of its try block, neither tmp_model_state.nc nor tmp_diagnostics.nc
\* exists.
C2_NoTmpFilesAfterWriteState ==
    ~InWriteState => fs \cap TmpFiles = {}

\* C2 witness: write_state has returned to its caller and both files are gone.
C2_Witness ==
    WriteStateReturned /\ fs \cap TmpFiles = {}

\* C3: every config or option value a test case reads, directly or through
\* an object it constructs, is the library default or was set by that same
\* test case.
C3_ReadsOwnOrDefault ==
    observed \subseteq {"default", cur}

\* C4: test_atmosphere_pik passes only if constructing AtmospherePIK with the
\* parameterization "invalid" raised RuntimeError; it fails if the
\* construction raised nothing or an error of another type.
C4_PassOnlyIfRuntimeError ==
    (cur = "PIK" /\ phase \in {"tearDown", "idle"} /\ outcome = "ok")
        => pikCtor = "RuntimeError"

\* C4 witness: test_atmosphere_pik has passed after the construction raised
\* RuntimeError.
C4_Witness ==
    cur = "PIK" /\ phase = "idle" /\ outcome = "ok" /\ pikCtor = "RuntimeError"

\* C5: the component under test has init called at most once and update at
\* most once, never update before init; both have been called exactly once
\* before any query of its outputs and when the test method returns.
C5_InitThenUpdateOnce ==
    cur # "none" =>
        /\ Tested.init <= 1
        /\ Tested.update <= Tested.init
        /\ Tested.queried => (Tested.init = 1 /\ Tested.update = 1)
        /\ (phase \in {"tearDown", "idle"} /\ outcome = "ok")
               => (Tested.init = 1 /\ Tested.update = 1)

\* C5 witness: a modifier test returned normally with its modifier
\* initialized, updated and queried.
C5_Witness ==
    /\ cur = "LapseRates" /\ phase = "tearDown" /\ outcome = "ok"
    /\ Tested.queried /\ Tested.init = 1 /\ Tested.update = 1

\* C6: in a test case with a scratch input file, the file exists during the
\* whole test method (init, update and every check), and once init has run
\* the file's name is registered in config/options by this test case; this
\* includes DeltaT and Anomaly, which share delta_T_input.nc.
C6_FilePresentWhileUsed ==
    cur \in WithFile =>
        /\ phase = "test" => Filename(cur) \in fs
        /\ (phase = "test" /\ Tested.init > 0) => Registered

\* C6 witness: Anomaly is checking its modifier after DeltaT, which uses the
\* same file name, ran in the same process.
C6_Witness ==
    /\ cur = "Anomaly" /\ "DeltaT" \in done /\ phase = "test"
    /\ Tested.init = 1 /\ Tested.queried
    /\ Filename(cur) \in fs /\ Registered

\* C10: end_pointwise_access is called on an object exactly once if and only
\* if begin_pointwise_access completed on it before, on every path through
\* check_model and check_modifier; in check_modifier the ends come in the
\* reverse order of the begins.
C10_EndIffBegin ==
    /\ \A o \in Objects : Count(access.ended, o) <= Count(access.begun, o)
    /\ ~InCheckBlock =>
          /\ \A o \in Objects : Count(access.ended, o) = Count(access.begun, o)
          /\ access.ended = Reverse(access.begun)

(***************************************************************************)
(* Properties of the comparison script                                     *)
(***************************************************************************)
\* the masking steps are over
Masked == pc \in {"masked", "fig1", "fig2", "done"}

\* C7: after the masking steps every cell that is non-ice or non-sliding
\* holds 0 in tauc, tauc_true and tauc_diff.
C7_MaskedCellsAreZero ==
    Masked =>
        \A c \in Cells :
            (NotIce(ds[c].mask) \/ NotSliding(u_computed[c], v_computed[c]))
                => (tauc[c] = 0 /\ tauc_true[c] = 0 /\ tauc_diff[c] = 0)

\* both runs drew their figures, with other values of both caps
TwoRunsOtherCaps ==
    /\ pc = "done" /\ prev.pc = "done"
    /\ prev.opts.tauc_cap # opts.tauc_cap
    /\ prev.opts.rel_cap # opts.rel_cap

\* C8 as stated: the bounds of all three figures are determined by the
\* options, so that other option values give other bounds in every figure.
C8_AllBoundsFromOptions ==
    TwoRunsOtherCaps =>
        /\ figs.difference # prev.figs.difference
        /\ figs.inversion # prev.figs.inversion
        /\ figs.prior # prev.figs.prior
        /\ figs.speed # prev.figs.speed

\* C8 as amended: the difference map uses [-rel_cap, rel_cap] and both panels
\* of the comparison use [0, tauc_cap], so other option values give other
\* bounds there; the speed map uses the fixed bounds [0.1, 1000] whatever
\* the options are.
C8_BoundsOfTheFigures ==
    /\ pc = "done" =>
          /\ figs.difference = [vmin |-> -(10 * opts.rel_cap), vmax |-> 10 * opts.rel_cap]
          /\ figs.inversion = [vmin |-> 0, vmax |-> 10 * opts.tauc_cap]
          /\ figs.prior = [vmin |-> 0, vmax |-> 10 * opts.tauc_cap]
          /\ figs.speed = [vmin |-> 1, vmax |-> 10000]
    /\ TwoRunsOtherCaps =>
          /\ figs.difference # prev.figs.difference
          /\ figs.inversion # prev.figs.inversion
          /\ figs.prior # prev.figs.prior
          /\ figs.speed = prev.figs.speed

\* C8 witness: two runs with other values of both caps have drawn their
\* figures.
C8_Witness ==
    TwoRunsOtherCaps /\ "tauc_cap" \in opts.given /\ "rel_cap" \in opts.given

\* C9: with no flag given, each of input_file, tauc_cap and rel_cap has a
\* non-null default value (tauc_cap = 200000, rel_cap = 1.0).
C9_DefaultsAreNonNull ==
    (pc # "start" /\ opts.given = {}) =>
        /\ opts.input_file # "None"
        /\ opts.tauc_cap = 200000
        /\ opts.rel_cap = 1

\* the first figure has been drawn
DifferenceDrawn == pc \in {"fig1", "fig2", "done"}

\* C11: the relative difference tauc_diff / tauc_true of the first figure is
\* never evaluated with a denominator of 0, at any grid cell, cells masked as
\* non-ice included.
C11_NoZeroDenominator ==
    DifferenceDrawn => \A c \in Cells : ~rel_diff[c].zero_division

====
